---- MODULE Spec2Model ----
(***************************************************************************)
(* wallsplash: rotating the desktop background between a local directory   *)
(* and a cache of images downloaded from Unsplash.                         *)
(*                                                                         *)
(* The repository holds two generations of the same components:            *)
(*   lib.rs       run, LocalFetcher (cursor reset rule)                    *)
(*   unsplash.rs  Client           (cursor reset rule), used by lib.rs run *)
(*   fetchers.rs  LocalFetcher, UnsplashFetcher (cursor modulo rule)       *)
(* Both are modelled.  Three specifications share the definitions:         *)
(*   SpecRemote   direct calls on a remote source (either generation)      *)
(*   SpecLocal    direct calls on a local source (either generation)       *)
(*   Spec         the driver loop lib.rs run                               *)
(***************************************************************************)
EXTENDS Integers, Sequences, FiniteSets, TLC

(***************************************************************************)
(* Bounds of the model.                                                    *)
(***************************************************************************)
\* largest number of photo descriptors one list response carries
MaxPhotos == 3
\* the clock runs from 0 to MaxTime
MaxTime == 2
\* the configured refresh interval is drawn from 1..MaxRefresh
MaxRefresh == 1
\* largest number of entries of the local directory
MaxEntries == 3
\* the configured tick timeout is drawn from 0..MaxTimeout
MaxTimeout == 1
\* the driver loop is followed for MaxTicks ticks
MaxTicks == 4
\* the numbers a configuration file defines are drawn from 1..MaxConf
MaxConf == 1
\* the two cursor rules are compared over counts drawn from 1..MaxCount
MaxCount == 5
\* and over MaxCalls calls
MaxCalls == 11

VARIABLES
    now,        \* the monotonic clock read by Instant::now() / elapsed()
    variant,    \* which remote source is under test: "Client" or "UnsplashFetcher"
    fetcher,    \* the remote source's fields: next, total, cached, refresh, timestamp
    cache,      \* the cache directory: index i -> state of the file <i>.jpg
    last,       \* what the last call of next_image_path on the remote source did
    served,     \* indices returned since the last successful refresh cycle
    lvariant,   \* which local source is under test: "lib" or "fetchers"
    dir,        \* the local directory: its entries in enumeration order
    local,      \* the local source's cursor (lib.rs curr, fetchers.rs next)
    llast,      \* what the last call of next_image_path on the local source did
    lhist,      \* entries returned since construction while the listing stayed fixed
    steady,     \* the listing has not changed, and was readable, since construction
    timeout,    \* the configured tick timeout
    do_local,   \* run: which source the next tick queries
    running,    \* run has not returned
    tick,       \* run: number of ticks begun
    shown,      \* what the last tick of run did
    avariant,   \* which argument parser is under test: "main" or "cli"
    matches,    \* the command line: flag -> Option of its text
    conf,       \* the configuration file: its state and the table it holds
    args,       \* what argument parsing produced
    proc,       \* the process: "start", "run", "exit1" or "panicked"
    dl_in,      \* one refresh cycle on its own: the cache directory and the
                \* answers of the network it starts with
    dl_out,     \* one refresh cycle on its own: what download_images returned
    pair        \* the two generations of a source run side by side on the
                \* same images: their cursors and the indices they selected

remoteVars == <<variant, fetcher, cache, last, served>>
localVars == <<lvariant, dir, local, llast, lhist, steady>>
runVars == <<timeout, do_local, running, tick, shown>>
argVars == <<avariant, matches, conf, args, proc>>
dlVars == <<dl_in, dl_out>>
vars == <<now, remoteVars, localVars, runVars, argVars, dlVars, pair>>

(***************************************************************************)
(* Values.                                                                 *)
(***************************************************************************)
\* the Err side of Result<PathBuf, _>: no path is returned
NoPath == -1

\* errors.rs WallsplashError, plus the errors `?` propagates from reqwest,
\* serde and std::io
ErrorKinds == {"LocalNoImage", "UnsplashAPIFail", "UnsplashNoImage",
               "ReqwestError", "JsonError", "IoError"}

\* how the list request of download_images can end
ListOutcomes == {"client_err", "send_err", "status_fail", "json_err", "ok"}

\* how the download of one photo can end: the request fails ("send_err"); the
\* response declares Content-Type image/jpeg ("jpeg"); it declares another
\* type or none, the two match arms that `continue` ("skip"); File::create
\* fails; io::copy fails
PhotoOutcomes == {"jpeg", "skip", "send_err", "create_err", "copy_err"}

PhotoErrors == {"send_err", "create_err", "copy_err"}

\* a request that is never sent has no outcome: the descriptors that follow the
\* first failing one carry the placeholder "jpeg"
Canonical(p) ==
    \A i \in DOMAIN p, j \in DOMAIN p :
        (i < j /\ p[i] \in PhotoErrors) => p[j] = "jpeg"

\* the list responses: up to MaxPhotos descriptors, each with the outcome of
\* its download
PhotoSeqs ==
    {p \in UNION {[1..n -> PhotoOutcomes] : n \in 0..MaxPhotos} : Canonical(p)}

CountOf(photos, kinds) == Cardinality({i \in DOMAIN photos : photos[i] \in kinds})

\* what goes wrong during the refresh cycle the network answers with resp:
\* the list request's failure, else the first failing photo's, else nothing
FaultOf(list, photos) ==
    IF list # "ok" THEN list
    ELSE LET bad == {i \in DOMAIN photos : photos[i] \in PhotoErrors} IN
         IF bad = {} THEN "none"
         ELSE LET first == CHOOSE i \in bad : \A j \in bad : i <= j IN
              IF photos[first] = "send_err" THEN "photo_send_err"
              ELSE photos[first]

\* the position, in list order, of the first descriptor whose download
\* fails; 0 when none does
FaultAt(list, photos) ==
    LET bad == {i \in DOMAIN photos : photos[i] \in PhotoErrors} IN
    IF list # "ok" \/ bad = {} THEN 0
    ELSE CHOOSE i \in bad : \A j \in bad : i <= j

\* a response with its summary: the fault, the numbers K of photos that are
\* skipped and M of JPEG photos when there is no fault, the position of the
\* failing descriptor and the number of JPEG photos ahead of it when a
\* download fails
Response(list, photos) ==
    LET fault == FaultOf(list, photos)
        at == FaultAt(list, photos)
    IN [list |-> list, photos |-> photos, fault |-> fault,
        K |-> IF fault = "none" THEN CountOf(photos, {"skip"}) ELSE 0,
        M |-> IF fault = "none" THEN CountOf(photos, {"jpeg"}) ELSE 0,
        faultAt |-> at,
        before |-> Cardinality({i \in DOMAIN photos :
                                   i < at /\ photos[i] = "jpeg"})]

\* what the network and the filesystem answer during one refresh cycle
Responses ==
    {Response(l, <<>>) : l \in ListOutcomes \ {"ok"}}
    \cup {Response("ok", p) : p \in PhotoSeqs}

\* no refresh cycle runs: nothing is asked of the network
NoResponse == Response("unused", <<>>)

\* a file of the cache directory: absent; completely written by the latest
\* refresh cycle ("cur"); or any other existing file ("stale": written by an
\* earlier cycle or an earlier process, or created and not completely written)
FileStates == {"absent", "stale", "cur"}

Slots == 0..(MaxPhotos - 1)

Exists(c, i) == i \in DOMAIN c /\ c[i] # "absent"

(***************************************************************************)
(* The remote source: fetchers.rs UnsplashFetcher, unsplash.rs Client.     *)
(***************************************************************************)
\* UnsplashFetcher::new / Client::new
NewFetcher(refresh) ==
    [next |-> 0, total |-> 0, cached |-> FALSE, refresh |-> refresh,
     timestamp |-> now]

\* Instant::elapsed
elapsed(ts) == now - ts

\* NeedsRefresh with `>` for `>=`
NeedsRefresh_strict(f) == ~f.cached \/ elapsed(f.timestamp) > f.refresh

\* the condition that starts a refresh cycle
NeedsRefresh(f) == ~f.cached \/ elapsed(f.timestamp) >= f.refresh

\* DownloadPhoto with `idx += 1` reached by a skipped photo too
DownloadPhoto_skipAdvances(st, outcome) ==
    LET asked == [st EXCEPT !.photoReqs = @ + 1] IN
    CASE outcome = "send_err" -> [asked EXCEPT !.res = "ReqwestError"]
      [] outcome = "skip" -> [asked EXCEPT !.idx = @ + 1]
      [] outcome = "create_err" -> [asked EXCEPT !.res = "IoError"]
      [] outcome = "copy_err" ->
            [asked EXCEPT !.res = "IoError",
                          !.cache[st.idx] = "stale",
                          !.created = @ \cup {st.idx}]
      [] outcome = "jpeg" ->
            [asked EXCEPT !.cache[st.idx] = "cur",
                          !.created = @ \cup {st.idx},
                          !.writes = Append(@, st.photoReqs + 1),
                          !.idx = @ + 1]

\* DownloadPhoto without the match on the Content-Type header: every
\* response is written to a file
DownloadPhoto_noTypeCheck(st, outcome) ==
    LET asked == [st EXCEPT !.photoReqs = @ + 1] IN
    CASE outcome = "send_err" -> [asked EXCEPT !.res = "ReqwestError"]
      [] outcome = "create_err" -> [asked EXCEPT !.res = "IoError"]
      [] outcome = "copy_err" ->
            [asked EXCEPT !.res = "IoError",
                          !.cache[st.idx] = "stale",
                          !.created = @ \cup {st.idx}]
      [] outcome \in {"jpeg", "skip"} ->
            [asked EXCEPT !.cache[st.idx] = "cur",
                          !.created = @ \cup {st.idx},
                          !.writes = Append(@, st.photoReqs + 1),
                          !.idx = @ + 1]

\* the body of `for photo in &photos`: one descriptor
\* st = [res, idx, cache, photoReqs, created, writes]; writes lists, by file
\* index, the position of the descriptor written to <index>.jpg
DownloadPhoto(st, outcome) ==
    LET asked == [st EXCEPT !.photoReqs = @ + 1] IN
    CASE outcome = "send_err" -> [asked EXCEPT !.res = "ReqwestError"]
      [] outcome = "skip" -> asked
      [] outcome = "create_err" -> [asked EXCEPT !.res = "IoError"]
      [] outcome = "copy_err" ->
            [asked EXCEPT !.res = "IoError",
                          !.cache[st.idx] = "stale",
                          !.created = @ \cup {st.idx}]
      [] outcome = "jpeg" ->
            [asked EXCEPT !.cache[st.idx] = "cur",
                          !.created = @ \cup {st.idx},
                          !.writes = Append(@, st.photoReqs + 1),
                          !.idx = @ + 1]

\* the loop over the descriptors, in list order; `?` leaves it at the first error
RECURSIVE DownloadLoop(_, _, _)
DownloadLoop(st, photos, i) ==
    IF i > Len(photos) \/ st.res # "Ok" THEN st
    ELSE DownloadLoop(DownloadPhoto(st, photos[i]), photos, i + 1)

\* download_images without the status check: the body of an error response is
\* handed to the JSON parser
download_images_noStatusCheck(c, resp) ==
    LET aged == [i \in DOMAIN c |-> IF c[i] = "cur" THEN "stale" ELSE c[i]]
        fail(kind, reqs, parsed) ==
            [res |-> kind, idx |-> 0, cache |-> aged, listReqs |-> reqs,
             parsed |-> parsed, photoReqs |-> 0, created |-> {},
             writes |-> <<>>]
    IN CASE resp.list = "client_err" -> fail("ReqwestError", 0, FALSE)
         [] resp.list = "send_err" -> fail("ReqwestError", 1, FALSE)
         [] resp.list \in {"status_fail", "json_err"} -> fail("JsonError", 1, TRUE)
         [] resp.list = "ok" ->
              LET st == DownloadLoop(
                            [res |-> "Ok", idx |-> 0, cache |-> aged,
                             photoReqs |-> 0, created |-> {},
                             writes |-> <<>>],
                            resp.photos, 1)
              IN [res |-> st.res, idx |-> st.idx, cache |-> st.cache,
                  listReqs |-> 1, parsed |-> TRUE,
                  photoReqs |-> st.photoReqs, created |-> st.created,
                  writes |-> st.writes]

\* download_images returning photos.len() for the number of files written
download_images_countsList(c, resp) ==
    LET aged == [i \in DOMAIN c |-> IF c[i] = "cur" THEN "stale" ELSE c[i]]
        fail(kind, reqs, parsed) ==
            [res |-> kind, idx |-> 0, cache |-> aged, listReqs |-> reqs,
             parsed |-> parsed, photoReqs |-> 0, created |-> {},
             writes |-> <<>>]
    IN CASE resp.list = "client_err" -> fail("ReqwestError", 0, FALSE)
         [] resp.list = "send_err" -> fail("ReqwestError", 1, FALSE)
         [] resp.list = "status_fail" -> fail("UnsplashAPIFail", 1, FALSE)
         [] resp.list = "json_err" -> fail("JsonError", 1, TRUE)
         [] resp.list = "ok" ->
              LET st == DownloadLoop(
                            [res |-> "Ok", idx |-> 0, cache |-> aged,
                             photoReqs |-> 0, created |-> {},
                             writes |-> <<>>],
                            resp.photos, 1)
              IN [res |-> st.res, idx |-> Len(resp.photos), cache |-> st.cache,
                  listReqs |-> 1, parsed |-> TRUE,
                  photoReqs |-> st.photoReqs, created |-> st.created,
                  writes |-> st.writes]

\* download_images: the list request, then the loop
\* returns [res, idx, cache, listReqs, parsed, photoReqs, created]
download_images(c, resp) ==
    LET aged == [i \in DOMAIN c |-> IF c[i] = "cur" THEN "stale" ELSE c[i]]
        fail(kind, reqs, parsed) ==
            [res |-> kind, idx |-> 0, cache |-> aged, listReqs |-> reqs,
             parsed |-> parsed, photoReqs |-> 0, created |-> {},
             writes |-> <<>>]
    IN CASE resp.list = "client_err" -> fail("ReqwestError", 0, FALSE)
         [] resp.list = "send_err" -> fail("ReqwestError", 1, FALSE)
         [] resp.list = "status_fail" -> fail("UnsplashAPIFail", 1, FALSE)
         [] resp.list = "json_err" -> fail("JsonError", 1, TRUE)
         [] resp.list = "ok" ->
              LET st == DownloadLoop(
                            [res |-> "Ok", idx |-> 0, cache |-> aged,
                             photoReqs |-> 0, created |-> {},
                             writes |-> <<>>],
                            resp.photos, 1)
              IN [res |-> st.res, idx |-> st.idx, cache |-> st.cache,
                  listReqs |-> 1, parsed |-> TRUE,
                  photoReqs |-> st.photoReqs, created |-> st.created,
                  writes |-> st.writes]

\* ModCursor without the reduction
ModCursor_noWrap(cursor, total) == cursor

\* fetchers.rs: self.next = self.next % self.total
ModCursor(cursor, total) == cursor % total

\* ResetCursor without its condition: the cursor is reset on every call
ResetCursor_unconditional(cursor, total) == 0

\* ResetCursor with `>` for `>=`
ResetCursor_offByOne(cursor, total) == IF cursor > total THEN 0 ELSE cursor

\* unsplash.rs: if self.curr >= self.total { self.curr = 0; }
ResetCursor(cursor, total) == IF cursor >= total THEN 0 ELSE cursor

\* RefreshStep without `self.cached = false` in the Err arm
RefreshStep_keepCached(f, c, resp) ==
    IF NeedsRefresh(f)
    THEN LET dl == download_images(c, resp) IN
         IF dl.res = "Ok"
         THEN [f |-> [f EXCEPT !.cached = TRUE, !.total = dl.idx,
                               !.timestamp = now],
               cache |-> dl.cache, dl |-> dl, ran |-> TRUE, failed |-> FALSE]
         ELSE [f |-> f,
               cache |-> dl.cache, dl |-> dl, ran |-> TRUE, failed |-> TRUE]
    ELSE [f |-> f, cache |-> c,
          dl |-> [res |-> "Ok", idx |-> 0, cache |-> c, listReqs |-> 0,
                  parsed |-> FALSE, photoReqs |-> 0, created |-> {},
                  writes |-> <<>>],
          ran |-> FALSE, failed |-> FALSE]

\* RefreshStep that counts a cycle without an image as a failed refresh:
\* cached is set only when len > 0
RefreshStep_emptyNotCached(f, c, resp) ==
    IF NeedsRefresh(f)
    THEN LET dl == download_images(c, resp) IN
         IF dl.res = "Ok"
         THEN [f |-> [f EXCEPT !.cached = dl.idx > 0, !.total = dl.idx,
                               !.timestamp = now],
               cache |-> dl.cache, dl |-> dl, ran |-> TRUE, failed |-> FALSE]
         ELSE [f |-> [f EXCEPT !.cached = FALSE],
               cache |-> dl.cache, dl |-> dl, ran |-> TRUE, failed |-> TRUE]
    ELSE [f |-> f, cache |-> c,
          dl |-> [res |-> "Ok", idx |-> 0, cache |-> c, listReqs |-> 0,
                  parsed |-> FALSE, photoReqs |-> 0, created |-> {},
                  writes |-> <<>>],
          ran |-> FALSE, failed |-> FALSE]

\* RefreshStep with the rotation restarted after a successful cycle
RefreshStep_resetsCursor(f, c, resp) ==
    IF NeedsRefresh(f)
    THEN LET dl == download_images(c, resp) IN
         IF dl.res = "Ok"
         THEN [f |-> [f EXCEPT !.cached = TRUE, !.total = dl.idx,
                               !.timestamp = now, !.next = 0],
               cache |-> dl.cache, dl |-> dl, ran |-> TRUE, failed |-> FALSE]
         ELSE [f |-> [f EXCEPT !.cached = FALSE],
               cache |-> dl.cache, dl |-> dl, ran |-> TRUE, failed |-> TRUE]
    ELSE [f |-> f, cache |-> c,
          dl |-> [res |-> "Ok", idx |-> 0, cache |-> c, listReqs |-> 0,
                  parsed |-> FALSE, photoReqs |-> 0, created |-> {},
                  writes |-> <<>>],
          ran |-> FALSE, failed |-> FALSE]

\* RefreshStep with total set to the number of files the failed cycle wrote
RefreshStep_partialTotal(f, c, resp) ==
    IF NeedsRefresh(f)
    THEN LET dl == download_images(c, resp) IN
         IF dl.res = "Ok"
         THEN [f |-> [f EXCEPT !.cached = TRUE, !.total = dl.idx,
                               !.timestamp = now],
               cache |-> dl.cache, dl |-> dl, ran |-> TRUE, failed |-> FALSE]
         ELSE [f |-> [f EXCEPT !.cached = FALSE, !.total = dl.idx],
               cache |-> dl.cache, dl |-> dl, ran |-> TRUE, failed |-> TRUE]
    ELSE [f |-> f, cache |-> c,
          dl |-> [res |-> "Ok", idx |-> 0, cache |-> c, listReqs |-> 0,
                  parsed |-> FALSE, photoReqs |-> 0, created |-> {},
                  writes |-> <<>>],
          ran |-> FALSE, failed |-> FALSE]

\* the first half of next_image_path: refresh when needed
\* returns [f, cache, dl, ran, failed]
RefreshStep(f, c, resp) ==
    IF NeedsRefresh(f)
    THEN LET dl == download_images(c, resp) IN
         IF dl.res = "Ok"
         THEN [f |-> [f EXCEPT !.cached = TRUE, !.total = dl.idx,
                               !.timestamp = now],
               cache |-> dl.cache, dl |-> dl, ran |-> TRUE, failed |-> FALSE]
         ELSE [f |-> [f EXCEPT !.cached = FALSE],
               cache |-> dl.cache, dl |-> dl, ran |-> TRUE, failed |-> TRUE]
    ELSE [f |-> f, cache |-> c,
          dl |-> [res |-> "Ok", idx |-> 0, cache |-> c, listReqs |-> 0,
                  parsed |-> FALSE, photoReqs |-> 0, created |-> {},
                  writes |-> <<>>],
          ran |-> FALSE, failed |-> FALSE]

\* the cursor rule of a generation: "mod" (fetchers.rs) or "reset" (lib.rs,
\* unsplash.rs)
Cursor(rule, cursor, total) ==
    IF rule = "mod" THEN ModCursor(cursor, total) ELSE ResetCursor(cursor, total)

\* SelectStep with `self.next = 0` added to the branch that finds no image
SelectStep_resetOnEmpty(f, rule) ==
    IF f.total > 0
    THEN LET n == Cursor(rule, f.next, f.total) IN
         [f |-> [f EXCEPT !.next = n + 1], res |-> "Ok", path |-> n]
    ELSE [f |-> [f EXCEPT !.next = 0], res |-> "UnsplashNoImage", path |-> NoPath]

\* the second half of next_image_path: select the file at the cursor
\* returns [f, res, path]
SelectStep(f, rule) ==
    IF f.total > 0
    THEN LET n == Cursor(rule, f.next, f.total) IN
         [f |-> [f EXCEPT !.next = n + 1], res |-> "Ok", path |-> n]
    ELSE [f |-> f, res |-> "UnsplashNoImage", path |-> NoPath]

\* next_image_path of either generation
\* returns [f, cache, res, path, dl, ran]
remote_next_image_path(f, c, resp, rule) ==
    LET r == RefreshStep(f, c, resp) IN
    IF r.failed
    THEN [f |-> r.f, cache |-> r.cache, res |-> r.dl.res, path |-> NoPath,
          dl |-> r.dl, ran |-> r.ran]
    ELSE LET s == SelectStep(r.f, rule) IN
         [f |-> s.f, cache |-> r.cache, res |-> s.res, path |-> s.path,
          dl |-> r.dl, ran |-> r.ran]

\* fetchers.rs UnsplashFetcher::next_image_path
UnsplashFetcher_next_image_path(f, c, resp) ==
    remote_next_image_path(f, c, resp, "mod")

\* unsplash.rs Client::next_image_path
Client_next_image_path(f, c, resp) ==
    remote_next_image_path(f, c, resp, "reset")

(***************************************************************************)
(* One refresh cycle on its own: download_images as a function of the     *)
(* cache directory it finds and of the answers it gets.                    *)
(***************************************************************************)
\* the cache directories a cycle can find: the files of an earlier batch
LeftoverCaches ==
    {[i \in Slots |-> IF i < k THEN "stale" ELSE "absent"] : k \in 0..MaxPhotos}

NoDownload ==
    [res |-> "none", idx |-> 0, cache |-> [i \in Slots |-> "absent"],
     listReqs |-> 0, parsed |-> FALSE, photoReqs |-> 0, created |-> {},
     writes |-> <<>>]

\* download_images runs once
DownloadImages ==
    /\ dl_out.res = "none"
    /\ dl_out' = download_images(dl_in.cache, dl_in.resp)
    /\ UNCHANGED <<dl_in, now, remoteVars, localVars, runVars, argVars, pair>>

DownloadInit ==
    /\ dl_in \in [cache : LeftoverCaches, resp : Responses]
    /\ dl_out = NoDownload

\* no cycle is looked at on its own
DownloadIdle ==
    /\ dl_in = [cache |-> [i \in Slots |-> "absent"], resp |-> NoResponse]
    /\ dl_out = NoDownload

(***************************************************************************)
(* Observations of a call, kept for the properties.                        *)
(***************************************************************************)
NoCall ==
    [op |-> "none", trigger |-> "none", fault |-> "unused", K |-> 0, M |-> 0,
     faultAt |-> 0, before |-> 0, cycles |-> 0, listReqs |-> 0, parsed |-> FALSE, photoReqs |-> 0,
     created |-> {}, res |-> "Ok", path |-> NoPath]

\* why the call starts a refresh cycle, read from the fields on entry
TriggerOf(f) ==
    IF ~f.cached THEN "uncached"
    ELSE IF now - f.timestamp >= f.refresh THEN "stale" ELSE "none"

Observe(f, resp, out) ==
    [op |-> "next_image_path", trigger |-> TriggerOf(f), fault |-> resp.fault,
     K |-> resp.K, M |-> resp.M, faultAt |-> resp.faultAt,
     before |-> resp.before,
     cycles |-> IF out.ran THEN 1 ELSE 0,
     listReqs |-> out.dl.listReqs, parsed |-> out.dl.parsed,
     photoReqs |-> out.dl.photoReqs, created |-> out.dl.created,
     res |-> out.res, path |-> out.path]

\* the remote source is called once; the network answers resp
RemoteEffects(out, resp) ==
    /\ fetcher' = out.f
    /\ cache' = out.cache
    /\ UNCHANGED variant

RemoteCall(out, resp) ==
    /\ RemoteEffects(out, resp)
    /\ last' = Observe(fetcher, resp, out)
    /\ served' = LET base == IF out.ran THEN <<>> ELSE served IN
                 IF out.path = NoPath \/ Len(base) > MaxPhotos THEN base
                 ELSE Append(base, out.path)
    /\ UNCHANGED <<now, localVars, runVars, argVars, dlVars, pair>>

UnsplashFetcherNextImagePath ==
    /\ variant = "UnsplashFetcher"
    /\ \E resp \in IF NeedsRefresh(fetcher) THEN Responses ELSE {NoResponse} :
          RemoteCall(UnsplashFetcher_next_image_path(fetcher, cache, resp), resp)

ClientNextImagePath ==
    /\ variant = "Client"
    /\ \E resp \in IF NeedsRefresh(fetcher) THEN Responses ELSE {NoResponse} :
          RemoteCall(Client_next_image_path(fetcher, cache, resp), resp)

\* time passes between two calls
AdvanceClock ==
    /\ now < MaxTime
    /\ now' = now + 1
    /\ UNCHANGED <<remoteVars, localVars, runVars, argVars, dlVars, pair>>

\* Client::new makes a fresh temporary directory; UnsplashFetcher::new reuses
\* ~/.config/wallsplash/cache, which may hold the files of an earlier process
RemoteInit ==
    /\ now = 0
    /\ variant \in {"Client", "UnsplashFetcher"}
    /\ \E r \in 1..MaxRefresh : fetcher = NewFetcher(r)
    /\ \E k \in 0..MaxPhotos :
          /\ cache = [i \in Slots |-> IF i < k THEN "stale" ELSE "absent"]
          /\ variant = "Client" => k = 0
    /\ last = NoCall
    /\ served = <<>>

(***************************************************************************)
(* The local source: lib.rs LocalFetcher, fetchers.rs LocalFetcher.        *)
(***************************************************************************)
\* a directory listing: each entry is a regular file or something else
Listings == UNION {[1..n -> {"file", "dir"}] : n \in 0..MaxEntries}

\* the loop over fs::read_dir: the entries with path.is_file(), in order; an
\* image is named by the position of its entry
RECURSIVE images(_, _)
images(listing, i) ==
    IF i > Len(listing) THEN <<>>
    ELSE IF listing[i] = "file" THEN <<i>> \o images(listing, i + 1)
    ELSE images(listing, i + 1)

\* how reading the directory can end: fs::read_dir fails, an entry fails, or
\* every entry is read
DirOutcomes == {"ok", "read_dir_err", "entry_err"}

\* LocalSelect without `self.next += 1`
LocalSelect_noAdvance(cursor, listing, io, rule, empty) ==
    IF io # "ok"
    THEN [cursor |-> cursor, res |-> "IoError", path |-> NoPath, index |-> NoPath]
    ELSE LET im == images(listing, 1) IN
         IF Len(im) > 0
         THEN LET n == Cursor(rule, cursor, Len(im)) IN
              [cursor |-> n, res |-> "Ok", path |-> im[n + 1], index |-> n]
         ELSE [cursor |-> cursor, res |-> empty, path |-> NoPath,
               index |-> NoPath]

\* next_image_path of either generation: list, select at the cursor, advance
\* returns [cursor, res, path, index]
LocalSelect(cursor, listing, io, rule, empty) ==
    IF io # "ok"
    THEN [cursor |-> cursor, res |-> "IoError", path |-> NoPath, index |-> NoPath]
    ELSE LET im == images(listing, 1) IN
         IF Len(im) > 0
         THEN LET n == Cursor(rule, cursor, Len(im)) IN
              [cursor |-> n + 1, res |-> "Ok", path |-> im[n + 1], index |-> n]
         ELSE [cursor |-> cursor, res |-> empty, path |-> NoPath,
               index |-> NoPath]

\* lib.rs LocalFetcher::next_image_path
lib_next_image_path(curr, listing, io) ==
    LocalSelect(curr, listing, io, "reset", "UnsplashNoImage")

\* fetchers.rs LocalFetcher::next_image_path
fetchers_next_image_path(next, listing, io) ==
    LocalSelect(next, listing, io, "mod", "LocalNoImage")

NoLocalCall ==
    [op |-> "none", io |-> "ok", count |-> 0, res |-> "Ok", path |-> NoPath,
     index |-> NoPath]

\* the local source is called once; reading the directory ends with io
LocalEffects(out, io) ==
    /\ local' = out.cursor
    /\ UNCHANGED <<lvariant, dir>>

LocalCall(out, io) ==
    /\ LocalEffects(out, io)
    /\ llast' = [op |-> "next_image_path", io |-> io,
                 count |-> Len(images(dir, 1)), res |-> out.res,
                 path |-> out.path, index |-> out.index]
    /\ steady' = (steady /\ io = "ok")
    /\ lhist' = IF ~steady' THEN <<>>
                ELSE IF out.path = NoPath \/ Len(lhist) > MaxEntries THEN lhist
                ELSE Append(lhist, out.path)
    /\ UNCHANGED <<now, remoteVars, runVars, argVars, dlVars, pair>>

LibLocalNextImagePath ==
    /\ lvariant = "lib"
    /\ \E io \in DirOutcomes :
          LocalCall(lib_next_image_path(local, dir, io), io)

FetchersLocalNextImagePath ==
    /\ lvariant = "fetchers"
    /\ \E io \in DirOutcomes :
          LocalCall(fetchers_next_image_path(local, dir, io), io)

\* another process adds, removes or replaces entries of the directory
DirChange ==
    /\ \E l \in Listings \ {dir} : dir' = l
    /\ steady' = FALSE
    /\ lhist' = <<>>
    /\ UNCHANGED <<now, remoteVars, lvariant, local, llast, runVars, argVars, dlVars, pair>>

\* LocalFetcher::new
LocalInit ==
    /\ lvariant \in {"lib", "fetchers"}
    /\ dir \in Listings
    /\ local = 0
    /\ llast = NoLocalCall
    /\ lhist = <<>>
    /\ steady = TRUE

(***************************************************************************)
(* The driver loop: lib.rs run.                                            *)
(***************************************************************************)
\* how Command::new("feh")...output() can end: feh runs and exits with
\* success, feh runs and exits with a failure status, or it cannot be run
FehOutcomes == {"ok", "exit_failure", "spawn_err"}

NoTick ==
    [source |-> "none", res |-> "Ok", path |-> NoPath, feh |-> "none",
     feh_arg |-> NoPath, logged |-> "none", toggled |-> FALSE,
     slept |-> FALSE, trace |-> <<>>]

\* Display with `?` in the Err arm too: a failure of the source leaves run
Display_errReturns(res, path, feh) ==
    IF res = "Ok"
    THEN [feh |-> feh, feh_arg |-> path, logged |-> "none",
          returned |-> feh = "spawn_err"]
    ELSE [feh |-> "none", feh_arg |-> NoPath, logged |-> res,
          returned |-> TRUE]

\* the arms of `match path`, with the `?` on output()
\* returns [feh, feh_arg, logged, returned]
Display(res, path, feh) ==
    IF res = "Ok"
    THEN [feh |-> feh, feh_arg |-> path, logged |-> "none",
          returned |-> feh = "spawn_err"]
    ELSE [feh |-> "none", feh_arg |-> NoPath, logged |-> res,
          returned |-> FALSE]

\* what one pass of `loop` does, in program order
Steps(source, d) ==
    <<IF source = "local" THEN "query_local" ELSE "query_remote">>
    \o (IF d.feh = "none" THEN <<>> ELSE <<"feh">>)
    \o (IF d.returned THEN <<"return">> ELSE <<"toggle", "sleep">>)

\* LoopBody with the toggle moved into the Ok arm of `match path`
LoopBody_toggleOnSuccess(source, res, path, feh) ==
    LET d == Display(res, path, feh) IN
    /\ tick' = tick + 1
    /\ running' = ~d.returned
    /\ do_local' = IF d.returned \/ res # "Ok" THEN do_local ELSE ~do_local
    /\ now' = IF d.returned THEN now ELSE now + timeout
    /\ shown' = [source |-> source, res |-> res, path |-> path, feh |-> d.feh,
                 feh_arg |-> d.feh_arg,
                 logged |-> d.logged, toggled |-> ~d.returned /\ res = "Ok",
                 slept |-> ~d.returned, trace |-> Steps(source, d)]
    /\ UNCHANGED timeout

\* the rest of one pass of `loop`, after the source has answered
LoopBody(source, res, path, feh) ==
    LET d == Display(res, path, feh) IN
    /\ tick' = tick + 1
    /\ running' = ~d.returned
    /\ do_local' = IF d.returned THEN do_local ELSE ~do_local
    /\ now' = IF d.returned THEN now ELSE now + timeout
    /\ shown' = [source |-> source, res |-> res, path |-> path, feh |-> d.feh,
                 feh_arg |-> d.feh_arg,
                 logged |-> d.logged, toggled |-> ~d.returned,
                 slept |-> ~d.returned, trace |-> Steps(source, d)]
    /\ UNCHANGED timeout

\* one pass of `loop` that queries the local source
TickLocal ==
    /\ running /\ tick < MaxTicks /\ do_local
    /\ \E io \in DirOutcomes :
          LET out == lib_next_image_path(local, dir, io) IN
          /\ LocalEffects(out, io)
          /\ \E feh \in IF out.res = "Ok" THEN FehOutcomes ELSE {"none"} :
                LoopBody("local", out.res, out.path, feh)
    /\ UNCHANGED <<remoteVars, llast, lhist, steady, argVars, dlVars, pair>>

\* one pass of `loop` that queries the remote source
TickRemote ==
    /\ running /\ tick < MaxTicks /\ ~do_local
    /\ \E resp \in IF NeedsRefresh(fetcher) THEN Responses ELSE {NoResponse} :
          LET out == Client_next_image_path(fetcher, cache, resp) IN
          /\ RemoteEffects(out, resp)
          /\ \E feh \in IF out.res = "Ok" THEN FehOutcomes ELSE {"none"} :
                LoopBody("remote", out.res, out.path, feh)
    /\ UNCHANGED <<localVars, last, served, argVars, dlVars, pair>>

\* run up to `loop`: Client::new and LocalFetcher::new have succeeded
RunInit ==
    /\ timeout \in 0..MaxTimeout
    /\ do_local = TRUE
    /\ running = TRUE
    /\ tick = 0
    /\ shown = NoTick

(***************************************************************************)
(* The two generations side by side: the same calls on the same images.    *)
(***************************************************************************)
NoPair ==
    [kind |-> "none", count |-> 1, mod |-> 0, reset |-> 0,
     sel_mod |-> NoPath, sel_reset |-> NoPath, calls |-> 0]

\* a remote source whose cache holds `count` images and is fresh
CachedFetcher(cursor, count) ==
    [next |-> cursor, total |-> count, cached |-> TRUE, refresh |-> 1,
     timestamp |-> now]

\* a directory of `count` regular files
FilesOnly(count) == [i \in 1..count |-> "file"]

\* fetchers.rs UnsplashFetcher and unsplash.rs Client select once each
RemotePairSelect ==
    /\ pair.kind = "remote" /\ pair.calls < MaxCalls
    /\ LET a == SelectStep(CachedFetcher(pair.mod, pair.count), "mod")
           b == SelectStep(CachedFetcher(pair.reset, pair.count), "reset")
       IN pair' = [pair EXCEPT !.mod = a.f.next, !.reset = b.f.next,
                               !.sel_mod = a.path, !.sel_reset = b.path,
                               !.calls = @ + 1]
    /\ UNCHANGED <<now, remoteVars, localVars, runVars, argVars, dlVars>>

\* fetchers.rs LocalFetcher and lib.rs LocalFetcher select once each
LocalPairSelect ==
    /\ pair.kind = "local" /\ pair.calls < MaxCalls
    /\ LET a == fetchers_next_image_path(pair.mod, FilesOnly(pair.count), "ok")
           b == lib_next_image_path(pair.reset, FilesOnly(pair.count), "ok")
       IN pair' = [pair EXCEPT !.mod = a.cursor, !.reset = b.cursor,
                               !.sel_mod = a.index, !.sel_reset = b.index,
                               !.calls = @ + 1]
    /\ UNCHANGED <<now, remoteVars, localVars, runVars, argVars, dlVars>>

\* both sources are new: cursor 0, and a count that stays as it is
PairInit ==
    \E k \in {"local", "remote"}, c \in 1..MaxCount :
        pair = [NoPair EXCEPT !.kind = k, !.count = c]

(***************************************************************************)
(* Argument parsing: main.rs mod cfg / def / args, and the earlier cli.rs. *)
(***************************************************************************)
\* Option<T>: None carries a placeholder of T
None(placeholder) == [some |-> FALSE, val |-> placeholder]

Some(v) == [some |-> TRUE, val |-> v]

\* Option::or
opt_or(a, b) == IF a.some THEN a ELSE b

\* Option::unwrap_or
unwrap_or(a, default) == IF a.some THEN a.val ELSE default

\* Result<T, Box<Error>>, and a panic that unwinds out of the function
Ok(v) == [status |-> "Ok", val |-> v]

Failed(kind, placeholder) == [status |-> kind, val |-> placeholder]

\* main.rs mod def
TIMEOUT == 30 * 60

UNSPLASH_LIMIT == 10

UNSPLASH_REFRESH == 24 * 60 * 60

\* the texts a numeric flag is given on the command line
CliTexts == {<<"7">>, <<"1", "2">>, <<"x">>}

DigitOf == [c \in {"0", "1", "2", "3", "4", "5", "6", "7", "8", "9"} |->
              CASE c = "0" -> 0 [] c = "1" -> 1 [] c = "2" -> 2 [] c = "3" -> 3
                [] c = "4" -> 4 [] c = "5" -> 5 [] c = "6" -> 6 [] c = "7" -> 7
                [] c = "8" -> 8 [] c = "9" -> 9]

\* str::parse::<u32>() / ::<u64>(): decimal digits to a number, and an error
\* for an empty text or a character that is no digit (the texts of the model
\* stay far below the range of u32)
RECURSIVE parse_digits(_, _, _)
parse_digits(text, i, acc) ==
    IF i > Len(text) THEN Ok(acc)
    ELSE IF text[i] \notin DOMAIN DigitOf THEN Failed("Err", 0)
    ELSE parse_digits(text, i + 1, acc * 10 + DigitOf[text[i]])

str_parse(text) ==
    IF Len(text) = 0 THEN Failed("Err", 0) ELSE parse_digits(text, 1, 0)

\* clap ArgMatches: value_of(flag) for each flag
TextOpts == {None(<<>>)} \cup {Some(t) : t \in CliTexts}

Matches ==
    [timeout : TextOpts, limit : TextOpts, refresh : TextOpts,
     dir : {None(""), Some("cli_dir")}, token : {None(""), Some("cli_token")}]

\* cfg::ConfigTable, LocalTable, UnsplashTable
NumOpts == {None(0)} \cup {Some(v) : v \in 1..MaxConf}

NoLocalTable == None([dir |-> None("")])

NoUnsplashTable ==
    None([token |-> None(""), limit |-> None(0), refresh |-> None(0)])

LocalTables == {NoLocalTable}
    \cup {Some([dir |-> d]) : d \in {None(""), Some("file_dir")}}

UnsplashTables == {NoUnsplashTable}
    \cup {Some(t) : t \in [token : {None(""), Some("file_token")},
                           limit : NumOpts, refresh : NumOpts]}

ConfigTables ==
    [timeout : NumOpts, local : LocalTables, unsplash : UnsplashTables]

\* main.rs ConfigTable::default()
ConfigTable_default ==
    [timeout |-> None(0), local |-> NoLocalTable, unsplash |-> NoUnsplashTable]

\* cli.rs ConfigTable::default()
cli_ConfigTable_default ==
    [timeout |-> Some(30 * 60), local |-> NoLocalTable,
     unsplash |-> NoUnsplashTable]

\* the file at the configuration path: no regular file there ("missing"), a
\* file that cannot be read ("io_err"), a file that is no ConfigTable in TOML
\* ("bad_toml"), or a file holding a table
ConfFiles ==
    {[state |-> st, table |-> ConfigTable_default] :
        st \in {"missing", "io_err", "bad_toml"}}
    \cup {[state |-> "ok", table |-> t] : t \in ConfigTables}

\* main.rs cfg::parse_file
parse_file(f) ==
    CASE f.state = "missing" -> Ok(ConfigTable_default)
      [] f.state \in {"io_err", "bad_toml"} -> Failed("Err", ConfigTable_default)
      [] f.state = "ok" -> Ok(f.table)

\* table.local.as_ref().and_then(|t| t.dir.to_owned())
local_dir_of(table) ==
    IF table.local.some THEN table.local.val.dir ELSE None("")

\* table.unsplash.as_ref().and_then(|t| t.<field>)
unsplash_of(table, field, placeholder) ==
    IF table.unsplash.some THEN table.unsplash.val[field]
    ELSE None(placeholder)

\* parse_timeout with the configuration file ahead of the command line
parse_timeout_fileFirst(m, table) ==
    LET secs == IF m.timeout.some THEN str_parse(m.timeout.val) ELSE Ok(0) IN
    IF secs.status # "Ok" THEN secs
    ELSE Ok(unwrap_or(opt_or(table.timeout,
                             IF m.timeout.some THEN Some(secs.val) ELSE None(0)),
                      TIMEOUT))

\* main.rs ArgsParser::parse_timeout
parse_timeout(m, table) ==
    LET secs == IF m.timeout.some THEN str_parse(m.timeout.val) ELSE Ok(0) IN
    IF secs.status # "Ok" THEN secs
    ELSE Ok(unwrap_or(opt_or(IF m.timeout.some THEN Some(secs.val) ELSE None(0),
                             table.timeout),
                      TIMEOUT))

\* main.rs ArgsParser::parse_local_dir: expect() panics on None
parse_local_dir(m, table) ==
    LET d == opt_or(m.dir, local_dir_of(table)) IN
    IF d.some THEN Ok(d.val) ELSE Failed("Panic", "")

\* main.rs ArgsParser::parse_token: expect() panics on None
parse_token(m, table) ==
    LET k == opt_or(m.token, unsplash_of(table, "token", "")) IN
    IF k.some THEN Ok(k.val) ELSE Failed("Panic", "")

\* main.rs ArgsParser::parse_limit
parse_limit(m, table) ==
    LET num == IF m.limit.some THEN str_parse(m.limit.val) ELSE Ok(0) IN
    IF num.status # "Ok" THEN num
    ELSE Ok(unwrap_or(opt_or(IF m.limit.some THEN Some(num.val) ELSE None(0),
                             unsplash_of(table, "limit", 0)),
                      UNSPLASH_LIMIT))

\* main.rs ArgsParser::parse_refresh
parse_refresh(m, table) ==
    LET secs == IF m.refresh.some THEN str_parse(m.refresh.val) ELSE Ok(0) IN
    IF secs.status # "Ok" THEN secs
    ELSE Ok(unwrap_or(opt_or(IF m.refresh.some THEN Some(secs.val) ELSE None(0),
                             unsplash_of(table, "refresh", 0)),
                      UNSPLASH_REFRESH))

\* the struct Args, with the outcome of building it; the fields carry
\* placeholders unless status = "Ok"
NoArgs(status) ==
    [status |-> status, timeout |-> 0, local_dir |-> "", unsplash_token |-> "",
     unsplash_limit |-> 0, unsplash_refresh |-> 0]

\* the struct literal of to_args: the fields are evaluated in order and the
\* first `?` that meets an Err, or the first panic, ends the evaluation
BuildArgs(t, d, k, l, r) ==
    CASE t.status # "Ok" -> NoArgs(t.status)
      [] d.status # "Ok" -> NoArgs(d.status)
      [] k.status # "Ok" -> NoArgs(k.status)
      [] l.status # "Ok" -> NoArgs(l.status)
      [] r.status # "Ok" -> NoArgs(r.status)
      [] OTHER -> [status |-> "Ok", timeout |-> t.val, local_dir |-> d.val,
                   unsplash_token |-> k.val, unsplash_limit |-> l.val,
                   unsplash_refresh |-> r.val]

\* main.rs ArgsParser::to_args
to_args(m, table) ==
    BuildArgs(parse_timeout(m, table), parse_local_dir(m, table),
              parse_token(m, table), parse_limit(m, table),
              parse_refresh(m, table))

\* main.rs Args::parse
Args_parse(m, f) ==
    LET table == parse_file(f) IN
    IF table.status # "Ok" THEN NoArgs(table.status) ELSE to_args(m, table.val)

\* main.rs main: what becomes of the process after Args::parse
main(parsed) ==
    CASE parsed.status = "Ok" -> "run"
      [] parsed.status = "Err" -> "exit1"
      [] parsed.status = "Panic" -> "panicked"

\* cli.rs parse_config_file
parse_config_file(f) ==
    CASE f.state = "missing" -> Ok(cli_ConfigTable_default)
      [] f.state \in {"io_err", "bad_toml"} -> Failed("Err", ConfigTable_default)
      [] f.state = "ok" -> Ok(f.table)

\* cli.rs parse_arg_timeout
parse_arg_timeout(m, table) ==
    IF m.timeout.some
    THEN str_parse(m.timeout.val)
    ELSE IF table.timeout.some THEN Ok(table.timeout.val) ELSE Ok(30 * 60)

\* cli.rs parse_arg_local_dir: both expect() panic on None
parse_arg_local_dir(m, table) ==
    IF m.dir.some THEN Ok(m.dir.val)
    ELSE IF ~table.local.some THEN Failed("Panic", "")
    ELSE IF ~table.local.val.dir.some THEN Failed("Panic", "")
    ELSE Ok(table.local.val.dir.val)

\* cli.rs parse_arg_token: both expect() panic on None
parse_arg_token(m, table) ==
    IF m.token.some THEN Ok(m.token.val)
    ELSE IF ~table.unsplash.some THEN Failed("Panic", "")
    ELSE IF ~table.unsplash.val.token.some THEN Failed("Panic", "")
    ELSE Ok(table.unsplash.val.token.val)

\* cli.rs parse_arg_limit
parse_arg_limit(m, table) ==
    IF m.limit.some
    THEN str_parse(m.limit.val)
    ELSE LET limit == IF table.unsplash.some THEN table.unsplash.val.limit
                      ELSE None(0)
         IN IF limit.some THEN Ok(limit.val) ELSE Ok(10)

\* cli.rs parse_arg_refresh
parse_arg_refresh(m, table) ==
    IF m.refresh.some
    THEN str_parse(m.refresh.val)
    ELSE LET refresh == IF table.unsplash.some THEN table.unsplash.val.refresh
                        ELSE None(0)
         IN IF refresh.some THEN Ok(refresh.val) ELSE Ok(24 * 60 * 60)

\* the functions of cli.rs applied to one command line and one file
cli_parse(m, f) ==
    LET table == parse_config_file(f) IN
    IF table.status # "Ok" THEN NoArgs(table.status)
    ELSE BuildArgs(parse_arg_timeout(m, table.val),
                   parse_arg_local_dir(m, table.val),
                   parse_arg_token(m, table.val),
                   parse_arg_limit(m, table.val),
                   parse_arg_refresh(m, table.val))

NotParsed == NoArgs("none")

\* main.rs main up to the call of wallsplash::run
MainParse ==
    /\ avariant = "main" /\ proc = "start"
    /\ args' = Args_parse(matches, conf)
    /\ proc' = main(args')
    /\ UNCHANGED <<avariant, matches, conf>>
    /\ UNCHANGED <<now, remoteVars, localVars, runVars, dlVars, pair>>

\* the parsing functions of cli.rs
CliParse ==
    /\ avariant = "cli" /\ proc = "start"
    /\ args' = cli_parse(matches, conf)
    /\ proc' = IF args'.status = "Panic" THEN "panicked" ELSE "parsed"
    /\ UNCHANGED <<avariant, matches, conf>>
    /\ UNCHANGED <<now, remoteVars, localVars, runVars, dlVars, pair>>

\* the process starts: any command line, any configuration file
ArgInit ==
    /\ avariant \in {"main", "cli"}
    /\ matches \in Matches
    /\ conf \in ConfFiles
    /\ args = NotParsed
    /\ proc = "start"

\* argument parsing has succeeded and run has been called
ArgsParsed ==
    /\ avariant = "main"
    /\ matches = [timeout |-> None(<<>>), limit |-> None(<<>>),
                  refresh |-> None(<<>>), dir |-> Some("cli_dir"),
                  token |-> Some("cli_token")]
    /\ conf = [state |-> "missing", table |-> ConfigTable_default]
    /\ args = Args_parse(matches, conf)
    /\ proc = main(args)

(***************************************************************************)
(* The specifications.                                                     *)
(***************************************************************************)
\* direct calls on a remote source of either generation
InitRemote ==
    /\ RemoteInit
    /\ LocalInit /\ lvariant = "lib" /\ dir = <<>>
    /\ RunInit /\ timeout = 0
    /\ ArgsParsed
    /\ DownloadIdle
    /\ pair = NoPair

NextRemote ==
    \/ UnsplashFetcherNextImagePath
    \/ ClientNextImagePath
    \/ AdvanceClock

SpecRemote == InitRemote /\ [][NextRemote]_vars

\* direct calls on a local source of either generation
InitLocal ==
    /\ RemoteInit /\ variant = "Client" /\ fetcher.refresh = 1
    /\ LocalInit
    /\ RunInit /\ timeout = 0
    /\ ArgsParsed
    /\ DownloadIdle
    /\ pair = NoPair

NextLocal ==
    \/ LibLocalNextImagePath
    \/ FetchersLocalNextImagePath
    \/ DirChange

SpecLocal == InitLocal /\ [][NextLocal]_vars

\* lib.rs run, with its LocalFetcher and its unsplash::Client; the directory
\* keeps the listing it has when run starts (SpecLocal covers a directory
\* that changes)
Init ==
    /\ RemoteInit /\ variant = "Client"
    /\ LocalInit /\ lvariant = "lib"
    /\ RunInit
    /\ ArgsParsed
    /\ DownloadIdle
    /\ pair = NoPair

Next ==
    \/ TickLocal
    \/ TickRemote

Spec == Init /\ [][Next]_vars

\* the loop keeps running: thread::sleep returns and the next pass begins
FairSpec == Spec /\ WF_vars(Next)

\* argument parsing, of either generation, over every command line and file
InitArgs ==
    /\ RemoteInit /\ variant = "Client" /\ fetcher.refresh = 1
    /\ LocalInit /\ lvariant = "lib" /\ dir = <<>>
    /\ RunInit /\ timeout = 0
    /\ ArgInit
    /\ DownloadIdle
    /\ pair = NoPair

NextArgs ==
    \/ MainParse
    \/ CliParse

SpecArgs == InitArgs /\ [][NextArgs]_vars

\* one refresh cycle, over every leftover cache and every answer
InitDownload ==
    /\ RemoteInit /\ variant = "Client" /\ fetcher.refresh = 1
    /\ LocalInit /\ lvariant = "lib" /\ dir = <<>>
    /\ RunInit /\ timeout = 0
    /\ ArgsParsed
    /\ DownloadInit
    /\ pair = NoPair

NextDownload == DownloadImages

SpecDownload == InitDownload /\ [][NextDownload]_vars

\* the cursor rules of the two generations, side by side
InitPair ==
    /\ RemoteInit /\ variant = "Client" /\ fetcher.refresh = 1
    /\ LocalInit /\ lvariant = "lib" /\ dir = <<>>
    /\ RunInit /\ timeout = 0
    /\ ArgsParsed
    /\ DownloadIdle
    /\ PairInit

NextPair ==
    \/ RemotePairSelect
    \/ LocalPairSelect

SpecPair == InitPair /\ [][NextPair]_vars

(***************************************************************************)
(* Properties of the remote source, checked under SpecRemote.              *)
(***************************************************************************)
\* a step that is one call of next_image_path on the remote source
RemoteCalled == now' = now /\ last'.op = "next_image_path"

Called == last.op = "next_image_path"

\* the error next_image_path hands back for each fault of a refresh cycle
ErrorOf(fault) ==
    CASE fault \in {"client_err", "send_err", "photo_send_err"} -> "ReqwestError"
      [] fault = "status_fail" -> "UnsplashAPIFail"
      [] fault = "json_err" -> "JsonError"
      [] fault \in {"create_err", "copy_err"} -> "IoError"

Fresh(f) == f.cached /\ now - f.timestamp < f.refresh

\* C3 as stated: a call with cached = TRUE and less than the refresh interval
\* elapsed makes no network call and succeeds with the file at the cursor.
C3_AsStated ==
    [][(RemoteCalled /\ Fresh(fetcher)) =>
        /\ last'.cycles = 0 /\ last'.listReqs = 0 /\ last'.photoReqs = 0
        /\ last'.res = "Ok"
        /\ fetcher.total > 0
        /\ last'.path = fetcher.next % fetcher.total]_vars

\* C3 (amended): a call with cached = TRUE and less than the refresh interval
\* elapsed makes no network call and leaves the cache directory alone; when
\* total > 0 it succeeds with the existing file at cursor mod total, and when
\* total = 0 it fails with UnsplashNoImage.
C3_CachedCallServesWithoutNetwork ==
    [][(RemoteCalled /\ Fresh(fetcher)) =>
        /\ last'.cycles = 0 /\ last'.listReqs = 0 /\ last'.photoReqs = 0
        /\ last'.created = {} /\ cache' = cache
        /\ IF fetcher.total > 0
           THEN /\ last'.res = "Ok"
                /\ last'.path = fetcher.next % fetcher.total
                /\ Exists(cache, last'.path)
           ELSE last'.res = "UnsplashNoImage" /\ last'.path = NoPath]_vars

\* a call was served from the cache, without a refresh cycle, after the cursor
\* had wrapped
C3_Witness ==
    /\ Called /\ last.trigger = "none" /\ last.cycles = 0
    /\ last.path = 0 /\ Len(served) > fetcher.total /\ fetcher.total >= 2

\* C4 as stated: a call with cached = FALSE or at least the refresh interval
\* elapsed runs exactly one refresh cycle with exactly one list request; the
\* call that follows a successful refresh within the interval runs none.
C4_AsStated ==
    [][RemoteCalled =>
        /\ (~Fresh(fetcher)) => (last'.cycles = 1 /\ last'.listReqs = 1)
        /\ (Called /\ last.cycles = 1 /\ last.fault = "none"
                /\ now - fetcher.timestamp < fetcher.refresh)
           => last'.cycles = 0]_vars

\* C4 (amended): such a call runs exactly one refresh cycle, which sends
\* exactly one list request unless building the HTTP client fails, and then
\* none; the call that follows a successful refresh within the interval runs
\* no cycle.
C4_OneRefreshCycleWhenDue ==
    [][RemoteCalled =>
        /\ (~Fresh(fetcher)) =>
              /\ last'.cycles = 1
              /\ last'.listReqs = IF last'.fault = "client_err" THEN 0 ELSE 1
        /\ (Called /\ last.cycles = 1 /\ last.fault = "none"
                /\ now - fetcher.timestamp < fetcher.refresh)
           => (last'.cycles = 0 /\ last'.listReqs = 0)]_vars

\* a cache that had been stale for longer than the interval was refreshed, by
\* one cycle with one list request
C4_Witness ==
    /\ Called /\ last.trigger = "stale" /\ last.cycles = 1 /\ last.listReqs = 1
    /\ last.fault = "none" /\ fetcher.timestamp > fetcher.refresh

\* C5: a call whose refresh cycle fails returns that failure and no path, and
\* leaves cached = FALSE; the call after it runs a refresh cycle again and
\* serves nothing of what was cached before.
C5_FailedRefreshPropagates ==
    /\ [](Called /\ last.cycles = 1 /\ last.fault # "none" =>
            /\ last.res = ErrorOf(last.fault)
            /\ last.path = NoPath
            /\ ~fetcher.cached
            /\ served = <<>>)
    /\ [][(RemoteCalled /\ Called /\ last.cycles = 1 /\ last.fault # "none") =>
            /\ last'.cycles = 1
            /\ last'.trigger = "uncached"
            /\ Len(served') <= 1]_vars

\* a refresh of a stale cache failed while the earlier batch, with total > 0,
\* was still on disk
C5_Witness ==
    /\ Called /\ last.trigger = "stale" /\ last.fault # "none"
    /\ fetcher.total > 0
    /\ \A i \in 0..(fetcher.total - 1) : Exists(cache, i)

\* C6 as stated: cached = TRUE implies total > 0 and every <i>.jpg with
\* i < total exists.
C6_AsStated ==
    fetcher.cached =>
        /\ fetcher.total > 0
        /\ \A i \in 0..(fetcher.total - 1) : Exists(cache, i)

\* C6 (amended): cached = TRUE implies that every <i>.jpg with i < total
\* exists; total is 0 when the last refresh cycle wrote no image.
C6_CachedFilesExist ==
    fetcher.cached =>
        /\ fetcher.total >= 0
        /\ \A i \in 0..(fetcher.total - 1) : Exists(cache, i)

C6_Witness == fetcher.cached /\ fetcher.total >= 2

\* C7: a refresh cycle over K skipped and M JPEG photos, every request
\* succeeding, creates exactly the M files 0.jpg .. (M-1).jpg and leaves
\* total = M; the calls within the interval then return M different files of
\* that cycle before the first one repeats.
C7_JpegOnlyBatchRoundRobin ==
    /\ (Called /\ last.cycles = 1 /\ last.fault = "none") =>
          /\ fetcher.total = last.M
          /\ last.created = 0..(last.M - 1)
          /\ last.photoReqs = last.K + last.M
          /\ \A i \in 0..(last.M - 1) : cache[i] = "cur"
    /\ (fetcher.cached /\ fetcher.total > 0) =>
          \A i \in DOMAIN served :
              /\ served[i] \in 0..(fetcher.total - 1)
              /\ cache[served[i]] = "cur"
              /\ \A j \in DOMAIN served :
                    /\ (i < j /\ j - i < fetcher.total) => served[i] # served[j]
                    /\ j = i + fetcher.total => served[j] = served[i]

\* two files cached, slot 2 never written: 0.jpg, 1.jpg, then 0.jpg again
C7_Witness ==
    /\ fetcher.cached /\ fetcher.total = 2 /\ served = <<0, 1, 0>>
    /\ cache[0] = "cur" /\ cache[1] = "cur" /\ cache[2] = "absent"

\* C8: when the list endpoint answers with a non-success status the call
\* fails with UnsplashAPIFail, the body is not parsed, no photo is requested,
\* no cache file is created, and cached = FALSE afterwards.
C8_ListStatusFailure ==
    (Called /\ last.fault = "status_fail") =>
        /\ last.res = "UnsplashAPIFail"
        /\ last.path = NoPath
        /\ last.listReqs = 1
        /\ ~last.parsed
        /\ last.photoReqs = 0
        /\ last.created = {}
        /\ ~fetcher.cached

\* the list request of the refresh of a stale cache was refused
C8_Witness ==
    /\ Called /\ last.fault = "status_fail" /\ last.trigger = "stale"
    /\ fetcher.total > 0

\* C9: when total = 0 after the refresh step (the cycle completed, or none was
\* due) the call fails with UnsplashNoImage and leaves the cursor unchanged.
C9_NoRemoteImage ==
    [][(RemoteCalled /\ last'.fault \in {"none", "unused"}
            /\ fetcher'.total = 0) =>
        /\ last'.res = "UnsplashNoImage"
        /\ last'.path = NoPath
        /\ fetcher'.next = fetcher.next]_vars

\* a non-empty list without a JPEG photo replaced a batch that had been served
C9_Witness ==
    /\ Called /\ last.res = "UnsplashNoImage" /\ last.K > 0 /\ last.M = 0
    /\ fetcher.total = 0 /\ fetcher.next > 0

\* C18: when the download of one photo fails (the request, the creation of
\* the file or the copy of the body), no later descriptor is requested, the
\* call returns that error, the files written earlier in the cycle are in the
\* cache directory and no file has been removed, and of the fields only
\* cached changes, to FALSE: total, the cursor and the timestamp keep their
\* values.
C18_PhotoFailureAbortsCycle ==
    [][(RemoteCalled
            /\ last'.fault \in {"photo_send_err", "create_err", "copy_err"}) =>
        /\ last'.cycles = 1 /\ last'.listReqs = 1
        /\ last'.photoReqs = last'.faultAt
        /\ last'.res = ErrorOf(last'.fault) /\ last'.path = NoPath
        /\ \A i \in 0..(last'.before - 1) :
              i \in last'.created /\ cache'[i] = "cur"
        /\ \A i \in Slots : Exists(cache, i) => Exists(cache', i)
        /\ fetcher' = [fetcher EXCEPT !.cached = FALSE]]_vars

\* the refresh of a stale cache of three files, one of them served, wrote
\* 0.jpg and failed while copying the second photo
C18_Witness ==
    /\ Called /\ last.trigger = "stale" /\ last.fault = "copy_err"
    /\ last.faultAt = 2 /\ last.before = 1 /\ last.photoReqs = 2
    /\ cache[0] = "cur" /\ cache[2] = "stale"
    /\ ~fetcher.cached /\ fetcher.total = 3 /\ fetcher.next = 1

\* C21: every path the remote source returns names <i>.jpg with i < total,
\* where total is the count of the most recent refresh cycle, which
\* succeeded; the file was written completely by that cycle: it is no
\* leftover of an earlier batch and no file of an aborted cycle.
C21_ReturnedFileIsOfLatestCycle ==
    [][(RemoteCalled /\ last'.res = "Ok") =>
        /\ last'.path \in 0..(fetcher'.total - 1)
        /\ fetcher'.cached
        /\ cache'[last'.path] = "cur"
        /\ last'.cycles = 1 =>
              (last'.fault = "none" /\ fetcher'.total = last'.M
                  /\ last'.path \in last'.created)
        /\ last'.cycles = 0 =>
              (fetcher'.total = fetcher.total /\ cache' = cache
                  /\ fetcher.cached)]_vars

\* a batch of one file is served from the cache while 1.jpg and 2.jpg of an
\* earlier, larger batch are still in the directory
C21_Witness ==
    /\ Called /\ last.cycles = 0 /\ last.res = "Ok" /\ last.path = 0
    /\ fetcher.total = 1 /\ fetcher.next = 1 /\ Len(served) >= 2
    /\ cache[0] = "cur" /\ cache[1] = "stale" /\ cache[2] = "stale"

\* C22: a refresh cycle that completes without error and writes no image
\* leaves cached = TRUE, total = 0 and the timestamp at the time of the call;
\* while less than the refresh interval has elapsed since, a call makes no
\* request, changes nothing and fails with UnsplashNoImage; once the interval
\* has elapsed, and not before, a call runs a refresh cycle again.
C22_EmptyBatchIsCached ==
    [][RemoteCalled =>
        /\ (last'.cycles = 1 /\ last'.fault = "none" /\ last'.M = 0) =>
              /\ fetcher'.cached /\ fetcher'.total = 0
              /\ fetcher'.timestamp = now
              /\ last'.res = "UnsplashNoImage" /\ last'.path = NoPath
        /\ (fetcher.cached /\ fetcher.total = 0) =>
              IF now - fetcher.timestamp < fetcher.refresh
              THEN /\ last'.cycles = 0 /\ last'.listReqs = 0
                   /\ last'.photoReqs = 0
                   /\ last'.res = "UnsplashNoImage" /\ last'.path = NoPath
                   /\ fetcher' = fetcher /\ cache' = cache
              ELSE last'.cycles = 1 /\ last'.trigger = "stale"]_vars

\* a call within the interval met the cache of a cycle that had completed
\* over a list without a JPEG photo
C22_Witness ==
    /\ Called /\ last.cycles = 0 /\ last.trigger = "none"
    /\ last.res = "UnsplashNoImage"
    /\ fetcher.cached /\ fetcher.total = 0
    /\ now - fetcher.timestamp < fetcher.refresh

\* C23: a refresh cycle, successful or failed, does not modify the cursor: a
\* call whose cycle fails, or finds no image, leaves the cursor as it was,
\* and a call whose cycle succeeds selects from the stored cursor: the file
\* at the cursor when the cursor is below the new total (not 0.jpg), and
\* otherwise the cursor reduced against the new total (cursor mod total in
\* fetchers.rs, 0 in unsplash.rs); the cursor then stands one past the file
\* selected.
C23_RefreshKeepsCursor ==
    [][(RemoteCalled /\ last'.cycles = 1) =>
        /\ last'.res # "Ok" => fetcher'.next = fetcher.next
        /\ last'.res = "Ok" =>
              /\ fetcher.next < fetcher'.total => last'.path = fetcher.next
              /\ fetcher.next >= fetcher'.total =>
                    last'.path = (IF variant = "UnsplashFetcher"
                                  THEN fetcher.next % fetcher'.total ELSE 0)
              /\ fetcher'.next = last'.path + 1]_vars

\* the refresh of a stale cache succeeded and the call returned 1.jpg: the
\* rotation went on from the stored cursor 1
C23_Witness ==
    /\ Called /\ last.trigger = "stale" /\ last.cycles = 1
    /\ last.res = "Ok" /\ last.path = 1 /\ fetcher.next = 2
    /\ fetcher.total = 3

\* C15 as stated: whatever total a refresh has left, a successful call on the
\* remote source returns the cached file at index (cursor on entry) mod
\* total.
C15_AsStated ==
    [][(RemoteCalled /\ last'.res = "Ok") =>
        /\ fetcher'.total > 0
        /\ last'.path = fetcher.next % fetcher'.total
        /\ Exists(cache', last'.path)]_vars

(***************************************************************************)
(* Properties of the local source, checked under SpecLocal.                *)
(***************************************************************************)
\* C10: while the listing stays fixed and readable, with N >= 1 regular
\* files, the k-th call (k = 0, 1, ...) of a freshly constructed local source
\* returns the file at index k mod N: the (N+1)-th call returns the first
\* file again and N consecutive calls return N different files.
C10_LocalRoundRobin ==
    steady =>
        LET im == images(dir, 1)
            N == Len(im)
        IN \A k \in DOMAIN lhist :
              /\ N >= 1
              /\ lhist[k] = im[((k - 1) % N) + 1]
              /\ \A j \in DOMAIN lhist :
                    /\ (k < j /\ j - k < N) => lhist[k] # lhist[j]
                    /\ j = k + N => lhist[j] = lhist[k]

\* two regular files around an entry that is none: first, second, first
C10_Witness ==
    /\ steady /\ dir = <<"file", "dir", "file">> /\ lhist = <<1, 3, 1>>

\* a step that is one call of next_image_path on the local source
LocalCalled == llast'.op = "next_image_path" /\ dir' = dir

\* C11 as stated: when the listing holds no regular file, the call on the
\* local source fails with LocalNoImage and leaves the cursor unchanged.
C11_AsStated ==
    [][(LocalCalled /\ llast'.io = "ok" /\ llast'.count = 0) =>
        /\ llast'.res = "LocalNoImage"
        /\ llast'.path = NoPath
        /\ local' = local]_vars

\* C14 as stated: whatever the listing has become since the last call, a
\* successful call on the local source selects the regular file at index
\* (cursor on entry) mod (number of regular files now), an index within the
\* listing.
C14_AsStated ==
    [][(LocalCalled /\ llast'.res = "Ok") =>
        /\ llast'.count > 0
        /\ llast'.index = local % llast'.count
        /\ llast'.index \in 0..(llast'.count - 1)
        /\ llast'.path = images(dir, 1)[llast'.index + 1]]_vars

(***************************************************************************)
(* Properties of the driver loop, checked under Spec.                      *)
(***************************************************************************)
\* C1 as stated: when a source has returned a path and the invocation of feh
\* fails, the failure is logged, run does not return, and the toggle happens,
\* so that the next tick queries the other source.
C1_AsStated ==
    (shown.res = "Ok" /\ shown.feh \in {"exit_failure", "spawn_err"}) =>
        /\ shown.logged # "none"
        /\ running
        /\ shown.toggled
        /\ do_local = (shown.source = "remote")

\* C2: the loop starts with the local source and toggles on every tick: tick
\* k queries the local source exactly when k is even, whatever the outcome of
\* the earlier ticks.
C2_ToggleEveryTick ==
    /\ tick > 0 => ((shown.source = "local") <=> ((tick - 1) % 2 = 0))
    /\ running => (do_local <=> (tick % 2 = 0))

\* the local directory holds no regular file, so tick 0 failed, and tick 1
\* queried the remote source
C2_Witness ==
    /\ tick = 2 /\ shown.source = "remote" /\ images(dir, 1) = <<>>
    /\ running /\ do_local

Ticked == tick > 0

\* C16: on a tick whose source query fails, whatever the error, the error is
\* logged, feh is not invoked, no source is queried a second time, and run
\* goes on: it toggles, sleeps and does not return.
C16_SourceFailureSkipsTick ==
    (Ticked /\ shown.res # "Ok") =>
        /\ shown.res \in ErrorKinds
        /\ shown.logged = shown.res
        /\ shown.feh = "none" /\ shown.feh_arg = NoPath
        /\ shown.path = NoPath
        /\ shown.trace \in {<<"query_local", "toggle", "sleep">>,
                            <<"query_remote", "toggle", "sleep">>}
        /\ running
        /\ do_local = (shown.source = "remote")

\* the refresh cycle of tick 1 failed, and on tick 2 the local directory could
\* not be read: both were logged and skipped, and run goes on
C16_Witness ==
    /\ tick = 3 /\ running /\ shown.source = "local" /\ shown.res = "IoError"
    /\ ~fetcher.cached /\ fetcher.total = 0

\* C17 as stated: run never returns, and the ticks keep coming: every tick
\* up to the horizon MaxTicks begins, and both sources are queried.
C17_AsStated ==
    /\ [](running)
    /\ <>(tick = MaxTicks)
    /\ <>(shown.source = "local")
    /\ <>(shown.source = "remote")

\* C20 as stated: every tick performs, in this order, one source query, at
\* most one invocation of feh, one toggle and one sleep; feh is invoked only
\* when the query of that tick succeeded, and with the path it returned.
C20_AsStated ==
    Ticked =>
        /\ shown.trace \in
              {<<q>> \o f \o <<"toggle", "sleep">> :
                  q \in {"query_local", "query_remote"},
                  f \in {<<>>, <<"feh">>}}
        /\ shown.toggled /\ shown.slept
        /\ shown.feh # "none" => (shown.res = "Ok" /\ shown.feh_arg = shown.path
                                     /\ shown.path # NoPath)

(***************************************************************************)
(* Properties of argument parsing, checked under SpecArgs.                 *)
(***************************************************************************)
\* the number a text of the command line stands for
NumberOf(text) ==
    CASE text = <<"7">> -> 7
      [] text = <<"1", "2">> -> 12

\* what the configuration file defines: nothing when there is no file
FileTimeout ==
    IF conf.state = "ok" THEN conf.table.timeout ELSE None(0)

FileDir ==
    IF conf.state = "ok" /\ conf.table.local.some
    THEN conf.table.local.val.dir ELSE None("")

FileUnsplash(field, placeholder) ==
    IF conf.state = "ok" /\ conf.table.unsplash.some
    THEN conf.table.unsplash.val[field] ELSE None(placeholder)

\* command line, else configuration file, else built-in default
Precedence(flag, file, default) ==
    IF flag.some THEN NumberOf(flag.val)
    ELSE IF file.some THEN file.val
    ELSE default

\* C12: when argument parsing succeeds, timeout, limit and refresh are the
\* command-line value when the flag is given, else the value the
\* configuration file defines, else 1800, 10 and 86400; dir and token are the
\* command-line value when given, else the configuration file's; a missing
\* file counts as a file that defines nothing.
C12_SettingsPrecedence ==
    args.status = "Ok" =>
        /\ conf.state \in {"ok", "missing"}
        /\ args.timeout = Precedence(matches.timeout, FileTimeout, 1800)
        /\ args.unsplash_limit =
              Precedence(matches.limit, FileUnsplash("limit", 0), 10)
        /\ args.unsplash_refresh =
              Precedence(matches.refresh, FileUnsplash("refresh", 0), 86400)
        /\ args.local_dir =
              (IF matches.dir.some THEN "cli_dir" ELSE FileDir.val)
        /\ ~matches.dir.some => FileDir.some
        /\ args.unsplash_token =
              (IF matches.token.some THEN "cli_token"
               ELSE FileUnsplash("token", "").val)
        /\ ~matches.token.some => FileUnsplash("token", "").some

\* main.rs parsed a command line that gives timeout and token, with a file
\* that defines timeout, dir and limit: one setting from each of the three
\* sources, and the flag ahead of the file
C12_Witness ==
    /\ avariant = "main" /\ args.status = "Ok"
    /\ matches.timeout.some /\ FileTimeout.some /\ args.timeout = 12
    /\ ~matches.limit.some /\ args.unsplash_limit = 1
    /\ ~matches.refresh.some /\ args.unsplash_refresh = 86400
    /\ args.local_dir = "file_dir" /\ args.unsplash_token = "cli_token"

\* C13 as stated: when neither the command line nor the configuration file
\* supplies the local directory, or neither supplies the token, Args::parse
\* returns Err and main exits with status 1: no panic, no call of run.
C13_AsStated ==
    (/\ avariant = "main" /\ proc # "start"
     /\ \/ ~matches.dir.some /\ ~FileDir.some
        \/ ~matches.token.some /\ ~FileUnsplash("token", "").some) =>
        /\ args.status = "Err"
        /\ proc = "exit1"

(***************************************************************************)
(* Properties of one refresh cycle, checked under SpecDownload.            *)
(***************************************************************************)
\* the descriptors the cycle gets to: all of them, or those ahead of the
\* first one whose download fails
Reached ==
    LET r == dl_in.resp IN
    IF r.faultAt = 0 THEN DOMAIN r.photos ELSE 1..(r.faultAt - 1)

\* the positions of the JPEG descriptors the cycle gets to
JpegsReached == {i \in Reached : dl_in.resp.photos[i] = "jpeg"}

\* C19: within one refresh cycle the j-th JPEG descriptor in list order
\* (j = 0, 1, ...) is written to <j>.jpg; a descriptor whose content type is
\* not image/jpeg, or is absent, writes no file, takes no index and is no
\* error; and a cycle without a failure returns the number of files written.
C19_WriteIndexCountsJpegs ==
    (dl_out.res # "none" /\ dl_in.resp.list = "ok") =>
        /\ Len(dl_out.writes) = Cardinality(JpegsReached)
        /\ \A j \in 0..(Len(dl_out.writes) - 1) :
              /\ dl_out.writes[j + 1] \in JpegsReached
              /\ Cardinality({i \in JpegsReached : i < dl_out.writes[j + 1]}) = j
              /\ dl_out.cache[j] = "cur"
              /\ j \in dl_out.created
        /\ \A i \in Slots \ dl_out.created : dl_out.cache[i] = dl_in.cache[i]
        /\ dl_in.resp.fault = "none" =>
              /\ dl_out.res = "Ok"
              /\ dl_out.idx = Len(dl_out.writes)
              /\ dl_out.created = 0..(dl_out.idx - 1)
              /\ dl_out.photoReqs = Len(dl_in.resp.photos)

\* a list of three: the first photo is no JPEG, the second and the third are
\* written to 0.jpg and 1.jpg, and 2.jpg of an earlier batch is left as it was
C19_Witness ==
    /\ dl_in.resp.photos = <<"skip", "jpeg", "jpeg">>
    /\ dl_out.res = "Ok" /\ dl_out.idx = 2 /\ dl_out.writes = <<2, 3>>
    /\ dl_in.cache[2] = "stale" /\ dl_out.cache[2] = "stale"

(***************************************************************************)
(* Properties of the two cursor rules, checked under SpecPair.             *)
(***************************************************************************)
\* C24: started from cursor 0 and run on the same calls with a count >= 1
\* that does not change, the rule that resets the cursor to 0 when it has
\* reached the count and the rule that takes the cursor modulo the count
\* select the same index on every call: the index k mod count on call k.
C24_CursorRulesAgree ==
    pair.calls > 0 =>
        /\ pair.sel_mod = pair.sel_reset
        /\ pair.sel_reset = (pair.calls - 1) % pair.count
        /\ pair.mod = pair.reset

\* the two remote sources have gone twice round three images
C24_Witness ==
    /\ pair.kind = "remote" /\ pair.count = 3 /\ pair.calls = 7
    /\ pair.sel_mod = 0 /\ pair.sel_reset = 0

====
